---- MODULE Spec2Model ----
(***************************************************************************)
(* The bencoding codec of aachick/bittorrent:                              *)
(*   src/bittorrent/bencoding/encode.py  (class Encoder, encode)           *)
(*   src/bittorrent/bencoding/decode.py  (class Decoder, decode)           *)
(* and, in the second half of the module, its wire messages:               *)
(*   src/bittorrent/messages/message.py, message_decoder.py                *)
(*                                                                         *)
(* In the codec half:                                                      *)
(* A byte is a one-token string ("d", "0", ":", ...); the two bytes of the *)
(* UTF-8 encoding of U+00E9 are the tokens "C3" and "A9".  A bytes object  *)
(* is a sequence of bytes.  A Python value is a record tagged with its     *)
(* type: [t |-> "int", v |-> 3], [t |-> "bytes", v |-> <<"a">>],           *)
(* [t |-> "list", v |-> <<...>>], [t |-> "dict", v |-> <<<<k, x>>, ...>>]  *)
(* (pairs in insertion order), and so on.                                  *)
(***************************************************************************)
EXTENDS Integers, Sequences, FiniteSets, TLC

VARIABLES
    input,       \* the object handed to encode(), or Unset
    bencoded,    \* Encoder._bencoded: the list of chunks appended so far
    encoded,     \* outcome of Encoder.encode()
    data,        \* Decoder._data
    curr_index,  \* Decoder._curr_index
    stack,       \* the open _decode_list/_decode_dict invocations
    pc,          \* where the run is
    ret,         \* the value the last sub-parser returned
    result,      \* outcome of decode()
    call,        \* the last sub-parser invocation (what it saw, what it did)
    hist,        \* what has happened during this decode() call
    reencoded,   \* outcome of encode(decode(b))
    cls,         \* the message class a classmethod is called on
    args,        \* the arguments handed to the class's constructor
    msg,         \* outcome of the constructor: the message object
    sent,        \* outcome of msg.to_bytes()
    payload,     \* the bytes handed to from_bytes() and decode_message()
    parsed,      \* outcome of cls.from_bytes(payload)
    decoded,     \* outcome of decode_message(payload)
    pieces,      \* outcome of msg.pieces_status()
    rebuilt,     \* outcome of cls.from_bytes(payload).to_bytes()
    reframed,    \* outcome of decode_message(payload).to_bytes()
    again        \* outcomes of the later encode() calls on the same Encoder

\* The state of the wire-message half of the package.
wire == <<cls, args, msg, sent, payload, parsed, decoded, pieces, rebuilt,
          reframed>>

\* The state of the bencoding half.
codec == <<input, bencoded, encoded, data, curr_index, stack, pc, ret,
           result, call, hist, reencoded, again>>

vars == <<input, bencoded, encoded, data, curr_index, stack, pc, ret,
          result, call, hist, reencoded, again, wire>>

Unset == [kind |-> "unset"]

Raised(e) == [kind |-> "raise", exc |-> e]

Returned(x) == [kind |-> "return", val |-> x]

----------------------------------------------------------------------------
(* Python's built-ins, as far as the codec uses them.                      *)

Digits == <<"0", "1", "2", "3", "4", "5", "6", "7", "8", "9">>

IsDigit(c) == \E k \in 1..10 : Digits[k] = c

DigitVal(c) == (CHOOSE k \in 1..10 : Digits[k] = c) - 1

\* bytes.isspace() bytes; the model's buffers hold only the space.
IsSpace(c) == c = " "

RECURSIVE NatToBytes(_)
NatToBytes(n) ==
    IF n < 10 THEN <<Digits[n + 1]>>
    ELSE Append(NatToBytes(n \div 10), Digits[(n % 10) + 1])

\* str(i).encode()
IntToBytes(i) == IF i < 0 THEN <<"-">> \o NatToBytes(-i) ELSE NatToBytes(i)

\* len(), d[i:j], d[i], d.find(c, start) with Python's treatment of negative
\* and out-of-range indices.  Python indices are 0-based.
Clamp(i, n) == IF i < 0 THEN (IF i + n < 0 THEN 0 ELSE i + n)
               ELSE (IF i > n THEN n ELSE i)

PySlice(d, i, j) ==
    LET a == Clamp(i, Len(d))
        b == Clamp(j, Len(d))
    IN  IF a >= b THEN <<>> ELSE SubSeq(d, a + 1, b)

IndexOk(d, i) == -Len(d) <= i /\ i < Len(d)

PyIndex(d, i) == IF i < 0 THEN d[Len(d) + i + 1] ELSE d[i + 1]

PyFind(d, c, start) ==
    LET a    == Clamp(start, Len(d))
        hits == {k \in a..(Len(d) - 1) : d[k + 1] = c}
    IN  IF start > Len(d) \/ hits = {} THEN -1
        ELSE CHOOSE k \in hits : \A m \in hits : k <= m

\* int(b) for a bytes object b, base 10: optional surrounding whitespace, an
\* optional sign, then digits, single underscores allowed between digits.
RECURSIVE StripLeft(_)
StripLeft(s) == IF s # <<>> /\ IsSpace(Head(s)) THEN StripLeft(Tail(s)) ELSE s

RECURSIVE StripRight(_)
StripRight(s) ==
    IF s # <<>> /\ IsSpace(s[Len(s)]) THEN StripRight(SubSeq(s, 1, Len(s) - 1))
    ELSE s

DigitsOk(s) ==
    /\ s # <<>>
    /\ \A k \in 1..Len(s) : IsDigit(s[k]) \/ s[k] = "_"
    /\ IsDigit(s[1]) /\ IsDigit(s[Len(s)])
    /\ \A k \in 1..(Len(s) - 1) : ~(s[k] = "_" /\ s[k + 1] = "_")

RECURSIVE DigitsVal(_, _)
DigitsVal(s, acc) ==
    IF s = <<>> THEN acc
    ELSE IF Head(s) = "_" THEN DigitsVal(Tail(s), acc)
    ELSE DigitsVal(Tail(s), 10 * acc + DigitVal(Head(s)))

PyInt(b) ==
    LET s    == StripRight(StripLeft(b))
        sign == s # <<>> /\ s[1] \in {"-", "+"}
        body == IF sign THEN Tail(s) ELSE s
    IN  IF ~DigitsOk(body) THEN Raised("ValueError")
        ELSE Returned(IF sign /\ s[1] = "-" THEN -DigitsVal(body, 0)
                      ELSE DigitsVal(body, 0))

----------------------------------------------------------------------------
(* encode.py: class Encoder.                                               *)

\* s.encode(): UTF-8.  A str is a sequence of code points; ASCII code points
\* are their own byte, U+00E9 takes two bytes.
Utf8(cp) == IF cp = "U+00E9" THEN <<"C3", "A9">> ELSE <<cp>>

RECURSIVE StrEncode(_)
StrEncode(s) == IF s = <<>> THEN <<>> ELSE Utf8(Head(s)) \o StrEncode(Tail(s))

\* The keys of Encoder._encode_func (dict and OrderedDict both map to
\* _encode_dict and are both tagged "dict" here).
EncodeFuncKeys == {"int", "bool", "str", "bytes", "list", "tuple", "dict"}

\* _encode_int: the chunk appended for i.
EncodeInt(i) == <<"i">> \o IntToBytes(i) \o <<"e">>

\* _encode_bool
EncodeBool(b) == IF b THEN EncodeInt(1) ELSE EncodeInt(0)

\* _encode_str: len(s) counts code points, s.encode() yields bytes.
EncodeStr(s) == NatToBytes(Len(s)) \o <<":">> \o StrEncode(s)

\* _encode_bytes
EncodeBytes(b) == NatToBytes(Len(b)) \o <<":">> \o b

\* What a run of the encoder has done: the chunks in _bencoded and the
\* exception in flight, if any.
Enc(buf, exc) == [buf |-> buf, exc |-> exc]

\* for k, v in d.items(): the pairs in the order _encode_dict visits them.
ItemsReversed(items) == [k \in 1..Len(items) |-> items[Len(items) + 1 - k]]

Items(items) == items

\* Whether the lookup _encode_func[type(x)] finds an entry.
Lookup(tag) == tag \in EncodeFuncKeys

RECURSIVE EncodeValue(_, _), EncodeList(_, _), EncodeDict(_, _)

\* self._encode_func[type(x)](x), with _bencoded = buf before the call.
EncodeValue(buf, x) ==
    IF ~Lookup(x.t) THEN Enc(buf, "KeyError")
    ELSE CASE x.t = "int"   -> Enc(Append(buf, EncodeInt(x.v)), "none")
           [] x.t = "bool"  -> Enc(Append(buf, EncodeBool(x.v)), "none")
           [] x.t = "str"   -> Enc(Append(buf, EncodeStr(x.v)), "none")
           [] x.t = "bytes" -> Enc(Append(buf, EncodeBytes(x.v)), "none")
           [] x.t \in {"list", "tuple"} ->
                LET r == EncodeList(Append(buf, <<"l">>), x.v)
                IN  IF r.exc # "none" THEN r
                    ELSE Enc(Append(r.buf, <<"e">>), "none")
           [] x.t = "dict" ->
                LET r == EncodeDict(Append(buf, <<"d">>), Items(x.v))
                IN  IF r.exc # "none" THEN r
                    ELSE Enc(Append(r.buf, <<"e">>), "none")
           [] OTHER -> Enc(buf, "none")

\* the loop of _encode_list
EncodeList(buf, lst) ==
    IF lst = <<>> THEN Enc(buf, "none")
    ELSE LET r == EncodeValue(buf, Head(lst))
         IN  IF r.exc # "none" THEN r ELSE EncodeList(r.buf, Tail(lst))

\* the loop of _encode_dict
EncodeDict(buf, items) ==
    IF items = <<>> THEN Enc(buf, "none")
    ELSE LET k == EncodeValue(buf, Head(items)[1])
         IN  IF k.exc # "none" THEN k
             ELSE LET v == EncodeValue(k.buf, Head(items)[2])
                  IN  IF v.exc # "none" THEN v
                      ELSE EncodeDict(v.buf, Tail(items))

RECURSIVE Join(_)
Join(chunks) == IF chunks = <<>> THEN <<>> ELSE Head(chunks) \o Join(Tail(chunks))

\* The except clauses of Encoder.encode.
TranslateNothing(exc) == exc

Translate(exc) ==
    IF exc \in {"KeyError", "UnicodeDecodeError"} THEN "InvalidBencodeDataType"
    ELSE exc

\* Encoder.encode() on an instance holding x whose _bencoded is buf: the
\* new _bencoded and what the caller gets.
EncoderEncode(buf, x) ==
    LET r == EncodeValue(buf, x)
    IN  [buf |-> r.buf,
         out |-> IF r.exc # "none" THEN Raised(Translate(r.exc))
                 ELSE Returned(Join(r.buf))]

\* encode(data): a fresh Encoder, one call.
encode(x) == EncoderEncode(<<>>, x)

----------------------------------------------------------------------------
(* decode.py: class Decoder.                                               *)

\* Stand-in for sys.getrecursionlimit(): how many _decode_list/_decode_dict
\* invocations may be open at once.  Every buffer of the model is shorter,
\* so only recursion that consumes no input reaches it.
RecursionLimit == 9

SyntaxErr == "InvalidTorrentFileBencoding"

\* The keys of Decoder._bdecode.
BdecodeOf(c) ==
    CASE c = "l"    -> "list"
      [] c = "d"    -> "dict"
      [] c = "i"    -> "int"
      [] IsDigit(c) -> "str"
      [] OTHER      -> "KeyError"

\* int(self._data[self._curr_index:colon_index]) of _decode_str.
StrLength(prefix) == PyInt(prefix)

\* The slice of _decode_str, decode.py:104.
StrSlice(d, colon, n) == PySlice(d, colon + 1, colon + 1 + n)

\* _decode_str at cursor idx: the exception or the string, the new cursor
\* and what the parser saw.
DecodeStrAt(d, idx) ==
    LET colon  == PyFind(d, ":", idx)
        prefix == PySlice(d, idx, colon)
        n      == StrLength(prefix)
    IN  IF colon = -1
        THEN [exc |-> SyntaxErr, idx |-> idx, colon |-> colon, prefix |-> <<>>]
        ELSE IF n.kind = "raise"
        THEN [exc |-> SyntaxErr, idx |-> idx, colon |-> colon, prefix |-> prefix]
        ELSE [exc |-> "none", val |-> [t |-> "bytes", v |-> StrSlice(d, colon, n.val)],
              idx |-> colon + 1 + n.val, colon |-> colon, prefix |-> prefix,
              length |-> n.val]

\* The leading-zero test of _decode_int, decode.py:126-131.
LeadingZero(i) ==
    Len(i) > 1 /\ (i[1] = "0" \/ (i[1] = "-" /\ i[2] = "0"))

\* _decode_int at cursor idx (the cursor is on the "i").
DecodeIntAt(d, idx) ==
    LET from    == idx + 1
        int_end == PyFind(d, "e", from)
        i       == PySlice(d, from, int_end)
        n       == PyInt(i)
    IN  IF int_end = -1
        THEN [exc |-> SyntaxErr, idx |-> from, span |-> <<>>, int_end |-> int_end]
        ELSE IF LeadingZero(i) \/ n.kind = "raise"
        THEN [exc |-> SyntaxErr, idx |-> from, span |-> i, int_end |-> int_end]
        ELSE [exc |-> "none", val |-> [t |-> "int", v |-> n.val],
              idx |-> int_end + 1, span |-> i, int_end |-> int_end]

\* The while condition of _decode_list and _decode_dict: "go" to run the
\* body, "stop" to leave the loop, "IndexError" when the subscript fails.
LoopCond(d, idx) ==
    IF ~(idx < Len(d)) THEN "stop"
    ELSE IF ~IndexOk(d, idx) THEN "IndexError"
    ELSE IF PyIndex(d, idx) # "e" THEN "go" ELSE "stop"

\* self._curr_index += 1 after the loop, decode.py:160 and 183.
AfterLoopWithin(d, idx) == IF idx >= Len(d) THEN idx ELSE idx + 1

AfterLoop(d, idx) == idx + 1

\* d[key] = val on an OrderedDict: a new key goes last, an existing key
\* keeps its place and takes the new value.
SetItemFront(items, k, x) ==
    IF \E j \in 1..Len(items) : items[j][1] = k
    THEN [j \in 1..Len(items) |-> IF items[j][1] = k THEN <<k, x>> ELSE items[j]]
    ELSE <<<<k, x>>>> \o items

SetItem(items, k, x) ==
    IF \E j \in 1..Len(items) : items[j][1] = k
    THEN [j \in 1..Len(items) |-> IF items[j][1] = k THEN <<k, x>> ELSE items[j]]
    ELSE Append(items, <<k, x>>)

\* The test of decode.py:73.
ConsumedAllNever(idx, d) == TRUE

ConsumedAllLax(idx, d) == idx >= Len(d)

ConsumedAll(idx, d) == idx = Len(d)

NoCall == [fn |-> "none"]

NoHist == [truncated |-> FALSE, unterminated |-> FALSE]

Fail(e) ==
    /\ result' = Raised(e)
    /\ pc' = "done"
    /\ ret' = Unset

\* decoder = Decoder(data); decoder.decode() up to the first dispatch.
Construct ==
    /\ pc = "construct"
    /\ curr_index' = 0
    /\ stack' = <<>>
    /\ call' = NoCall
    /\ hist' = NoHist
    /\ IF data = <<>>
       THEN Fail("TypeError")
       ELSE /\ pc' = "dispatch"
            /\ UNCHANGED <<ret, result>>
    /\ UNCHANGED <<wire, again, input, bencoded, encoded, data, reencoded>>

CurrByte == PyIndex(data, curr_index)

\* self._bdecode[curr_byte]() when the subscript or the lookup fails.
DispatchError ==
    /\ pc = "dispatch"
    /\ IF IndexOk(data, curr_index) THEN BdecodeOf(CurrByte) = "KeyError" ELSE TRUE
    /\ IF ~IndexOk(data, curr_index)
       THEN Fail("IndexError")
       ELSE Fail("KeyError")
    /\ UNCHANGED <<wire, again, input, bencoded, encoded, data, curr_index, stack,
                   call, hist, reencoded>>

\* The effect of one _decode_str invocation, as a value or as a key.
StrStep(as_key) ==
    \E r \in {DecodeStrAt(data, curr_index)} :
        /\ call' = [fn |-> "str", start |-> curr_index, after |-> r.idx,
                    as_key |-> as_key, exc |-> r.exc, prefix |-> r.prefix,
                    colon |-> r.colon]
        /\ IF r.exc # "none"
           THEN /\ Fail(r.exc)
                /\ UNCHANGED <<curr_index, stack, hist>>
           ELSE /\ curr_index' = r.idx
                /\ hist' = [hist EXCEPT !.truncated =
                               @ \/ r.colon + 1 + r.length > Len(data)]
                /\ IF as_key
                   THEN /\ stack' = [stack EXCEPT ![Len(stack)].key = r.val]
                        /\ pc' = "dispatch"
                        /\ UNCHANGED <<ret, result>>
                   ELSE /\ ret' = r.val
                        /\ pc' = "return"
                        /\ UNCHANGED <<stack, result>>

DecodeStr ==
    /\ pc = "dispatch"
    /\ IndexOk(data, curr_index)
    /\ BdecodeOf(CurrByte) = "str"
    /\ StrStep(FALSE)
    /\ UNCHANGED <<wire, again, input, bencoded, encoded, data, reencoded>>

DecodeInt ==
    /\ pc = "dispatch"
    /\ IndexOk(data, curr_index)
    /\ BdecodeOf(CurrByte) = "int"
    /\ \E r \in {DecodeIntAt(data, curr_index)} :
           /\ call' = [fn |-> "int", start |-> curr_index, after |-> r.idx,
                       exc |-> r.exc, span |-> r.span, int_end |-> r.int_end]
           /\ curr_index' = r.idx
           /\ IF r.exc # "none"
              THEN Fail(r.exc)
              ELSE /\ ret' = r.val
                   /\ pc' = "return"
                   /\ UNCHANGED result
    /\ UNCHANGED <<wire, again, input, bencoded, encoded, data, stack, hist, reencoded>>

\* Entering _decode_list or _decode_dict: lines 151-152 and 171-172.
Enter(fn) ==
    /\ call' = [fn |-> fn, start |-> curr_index]
    /\ IF Len(stack) >= RecursionLimit
       THEN /\ Fail("RecursionError")
            /\ UNCHANGED <<curr_index, stack>>
       ELSE /\ stack' = Append(stack, [fn |-> fn, acc |-> <<>>, key |-> Unset,
                                       start |-> curr_index])
            /\ curr_index' = curr_index + 1
            /\ pc' = "loop"
            /\ UNCHANGED <<ret, result>>
    /\ UNCHANGED <<wire, again, input, bencoded, encoded, data, hist, reencoded>>

DecodeList ==
    /\ pc = "dispatch"
    /\ IndexOk(data, curr_index)
    /\ BdecodeOf(CurrByte) = "list"
    /\ Enter("list")

DecodeDict ==
    /\ pc = "dispatch"
    /\ IndexOk(data, curr_index)
    /\ BdecodeOf(CurrByte) = "dict"
    /\ Enter("dict")

Top == stack[Len(stack)]

Pop == SubSeq(stack, 1, Len(stack) - 1)

\* One evaluation of the while condition; leaving the loop runs the lines
\* after it (the cursor steps over the terminator, the container returns).
Loop(fn) ==
    /\ \E c \in {LoopCond(data, curr_index)} :
           CASE c = "go" ->
                  /\ pc' = IF fn = "dict" THEN "key" ELSE "dispatch"
                  /\ UNCHANGED <<curr_index, stack, ret, result, hist>>
             [] c = "stop" ->
                  /\ curr_index' = AfterLoop(data, curr_index)
                  /\ stack' = Pop
                  /\ ret' = [t |-> fn, v |-> Top.acc]
                  /\ pc' = "return"
                  /\ hist' = [hist EXCEPT !.unterminated =
                                 @ \/ curr_index >= Len(data)]
                  /\ UNCHANGED result
             [] OTHER ->
                  /\ Fail(c)
                  /\ UNCHANGED <<curr_index, stack, hist>>
    /\ UNCHANGED <<wire, again, input, bencoded, encoded, data, call, reencoded>>

ListLoop ==
    /\ pc = "loop"
    /\ Top.fn = "list"
    /\ Loop("list")

DictLoop ==
    /\ pc = "loop"
    /\ Top.fn = "dict"
    /\ Loop("dict")

\* key = self._decode_str(), decode.py:176.
DictKey ==
    /\ pc = "key"
    /\ StrStep(TRUE)
    /\ UNCHANGED <<wire, again, input, bencoded, encoded, data, reencoded>>

\* A sub-parser has returned into the loop body of the enclosing container:
\* lst.append(element) or d[key] = val.
Store ==
    /\ pc = "return"
    /\ stack # <<>>
    /\ stack' = [stack EXCEPT ![Len(stack)] =
                   IF Top.fn = "list"
                   THEN [@ EXCEPT !.acc = Append(@, ret)]
                   ELSE [@ EXCEPT !.acc = SetItem(@, Top.key, ret),
                                  !.key = Unset]]
    /\ pc' = "loop"
    /\ ret' = Unset
    /\ UNCHANGED <<wire, again, input, bencoded, encoded, data, curr_index, result,
                   call, hist, reencoded>>

\* The top-level value has returned into decode(): lines 73-79.
Finish ==
    /\ pc = "return"
    /\ stack = <<>>
    /\ result' = IF ConsumedAll(curr_index, data) THEN Returned(ret)
                 ELSE Raised(SyntaxErr)
    /\ pc' = "done"
    /\ ret' = Unset
    /\ UNCHANGED <<wire, again, input, bencoded, encoded, data, curr_index, stack,
                   call, hist, reencoded>>

NextDec ==
    \/ Construct
    \/ DispatchError
    \/ DecodeStr
    \/ DecodeInt
    \/ DecodeList
    \/ DecodeDict
    \/ ListLoop
    \/ DictLoop
    \/ DictKey
    \/ Store
    \/ Finish

----------------------------------------------------------------------------
(* The objects handed to encode().                                         *)

MaxNodes == 3

B(b) == [t |-> "bytes", v |-> b]

I(i) == [t |-> "int", v |-> i]

None == [t |-> "NoneType", v |-> <<>>]

\* The objects a caller hands to encode() directly.
Atoms ==
    { I(0), I(7), I(-12),
      B(<<>>), B(<<"1", ":", "e", "e", "e", "e", "e", "e", "e", "e">>),
      [t |-> "bool", v |-> TRUE], [t |-> "bool", v |-> FALSE],
      [t |-> "str", v |-> <<"a">>], [t |-> "str", v |-> <<"U+00E9">>],
      None }

\* The atoms found inside containers, and the keys of mappings.
Elems ==
    { I(-12), B(<<"1", ":", "e", "e", "e", "e", "e", "e", "e", "e">>),
      [t |-> "str", v |-> <<"U+00E9">>], None }

KeyPool == { B(<<"b">>), B(<<"a">>), None }

\* A dict holds no key twice.
KeysDistinct(q) == \A j, k \in 1..Len(q) : q[j][1] = q[k][1] => j = k

RECURSIVE ValuesOfSize(_), SeqsOfSize(_), ItemsOfSize(_)

\* The objects with n nodes: an atom or a container is a node, a key is not.
ValuesOfSize(n) ==
    (IF n = 1 THEN Elems ELSE {})
    \cup {[t |-> "list", v |-> s] : s \in SeqsOfSize(n - 1)}
    \cup {[t |-> "dict", v |-> s] : s \in {q \in ItemsOfSize(n - 1) : KeysDistinct(q)}}

SeqsOfSize(n) ==
    IF n = 0 THEN {<<>>}
    ELSE UNION { {<<x>> \o r : x \in ValuesOfSize(m), r \in SeqsOfSize(n - m)}
                 : m \in 1..n }

\* Sequences of (key, value) pairs with n nodes.
ItemsOfSize(n) ==
    IF n = 0 THEN {<<>>}
    ELSE UNION { {<<<<kx[1], kx[2]>>>> \o r :
                    kx \in KeyPool \X ValuesOfSize(m),
                    r \in ItemsOfSize(n - m)}
                 : m \in 1..n }

Nested == UNION {ValuesOfSize(n) : n \in 1..MaxNodes}

\* Built only from byte strings, integers, lists and mappings with
\* byte-string keys.
RECURSIVE IsCore(_)
IsCore(x) ==
    CASE x.t \in {"int", "bytes"} -> TRUE
      [] x.t = "list" -> \A j \in 1..Len(x.v) : IsCore(x.v[j])
      [] x.t = "dict" -> \A j \in 1..Len(x.v) :
                            x.v[j][1].t = "bytes" /\ IsCore(x.v[j][2])
      [] OTHER -> FALSE

\* What encode() returns for them.
Encodings == {encode(x).out.val : x \in {y \in Nested : IsCore(y)}}

\* A tuple is handed over at the top level, in place of a list.
Inputs ==
    Atoms \cup Nested
    \cup {[t |-> "tuple", v |-> x.v] : x \in {y \in Nested : y.t = "list"}}

----------------------------------------------------------------------------
(* The buffers handed to decode().                                         *)

MaxLen == 4

MaxSpan == 3

SeqsUpTo(S, n) == UNION {[1..k -> S] : k \in 0..n}

\* Every buffer of at most MaxLen bytes over the bytes the grammar reads.
Alphabet == {"d", "l", "i", "e", ":", "-", "0", "1"}

ShortBuffers == SeqsUpTo(Alphabet, MaxLen)

\* Every integer span of at most MaxSpan bytes without an "e", at the top
\* level, as a list element and as a mapping value.
SpanAlphabet == {"0", "1", "-", "+", "_", " "}

Spans == SeqsUpTo(SpanAlphabet, MaxSpan)

IntBuffers ==
    {<<"i">> \o s \o <<"e">> : s \in Spans}
    \cup {<<"l", "i">> \o s \o <<"e", "e">> : s \in Spans}
    \cup {<<"d", "1", ":", "a", "i">> \o s \o <<"e", "e">> : s \in Spans}

\* Longer buffers: deeper nesting, strings cut short in each position,
\* containers left open, keys with a negative length.
Corpus ==
    { <<"3", ":", "a", "b">>,
      <<"l", "3", ":", "a", "b">>,
      <<"l", "1", ":", "a", "3", ":", "a", "b">>,
      <<"d", "3", ":", "a", "b">>,
      <<"d", "1", ":", "a", "3", ":", "a", "b">>,
      <<"d", "1", ":", "a", "l", "2", ":", "a", "e">>,
      <<"l", "4", ":", "s", "p", "a", "m">>,
      <<"l", "4", ":", "s", "p", "a", "m", "e">>,
      <<"l", "l", "4", ":", "s", "p", "a", "m", "e">>,
      <<"d", "1", ":", "a", "l", "i", "1", "e", "e">>,
      <<"d", "1", ":", "a", "d", "1", ":", "b", "i", "1", "e", "e">>,
      <<"d", "1", ":", "a", "1", ":", "b">>,
      <<"d", "1", ":", "a", "1", ":", "b", "e">>,
      <<"d", "1", ":", "a", "i", "1", "e", "1", ":", "a", "i", "2", "e", "e">>,
      <<"d", "1", ":", "b", "i", "1", "e", "1", ":", "a", "i", "2", "e", "e">>,
      <<"d", "0", ":", "0", ":", "-", "5", ":">>,
      <<"d", "0", ":", "l", "e", "-", "5", ":">>,
      <<"d", "-", "4", ":">>,
      <<"d", "-", "1", ":", "a", "i", "1", "e", "e">>,
      <<"d", "+", "1", ":", "a", "i", "1", "e", "e">>,
      <<"1", "0", ":", "a", "a", "a", "a", "a", "a", "a", "a", "a", "a">>,
      <<"i", "1", "e", "e">>,
      <<"i", "-", "1", "2", "e">> }

\* An encoding of a value of the four decodable shapes, then one more byte.
TrailBuffers == {b \o <<c>> : b \in Encodings, c \in {"e", "0"}}

Buffers == ShortBuffers \cup IntBuffers \cup Corpus \cup TrailBuffers

\* Nothing encoded, a Decoder about to be built on the buffer.
\* No message is being built or read.
NoWire ==
    /\ cls = Unset
    /\ args = Unset
    /\ msg = Unset
    /\ sent = Unset
    /\ payload = Unset
    /\ parsed = Unset
    /\ decoded = Unset
    /\ pieces = Unset
    /\ rebuilt = Unset
    /\ reframed = Unset

Fresh ==
    /\ NoWire
    /\ pc = "construct"
    /\ input = Unset
    /\ bencoded = <<>>
    /\ encoded = Unset
    /\ curr_index = 0
    /\ stack = <<>>
    /\ ret = Unset
    /\ result = Unset
    /\ call = NoCall
    /\ hist = NoHist
    /\ reencoded = Unset
    /\ again = <<>>

InitDec ==
    /\ data \in Buffers
    /\ Fresh

SpecDec == InitDec /\ [][NextDec]_vars

----------------------------------------------------------------------------
(* The caller: b = encode(x); y = decode(b); encode(y).                    *)

\* encoder = Encoder(input); encoder.encode(); the bytes go to a Decoder.
EncodeCall ==
    /\ pc = "encode"
    /\ \E r \in {encode(input)} :
           /\ bencoded' = r.buf
           /\ encoded' = r.out
           /\ IF r.out.kind = "return"
              THEN /\ data' = r.out.val
                   /\ pc' = "construct"
              ELSE /\ pc' = "failed"
                   /\ UNCHANGED data
    /\ UNCHANGED <<wire, again, input, curr_index, stack, ret, result, call, hist, reencoded>>

\* encode(decode(b)), with a fresh Encoder.
ReEncode ==
    /\ pc = "done"
    /\ input # Unset
    /\ result.kind = "return"
    /\ reencoded' = encode(result.val).out
    /\ pc' = "reencoded"
    /\ UNCHANGED <<wire, again, input, bencoded, encoded, data, curr_index, stack, ret,
                   result, call, hist>>

Init ==
    /\ NoWire
    /\ input \in Inputs
    /\ pc = "encode"
    /\ bencoded = <<>>
    /\ encoded = Unset
    /\ data = <<>>
    /\ curr_index = 0
    /\ stack = <<>>
    /\ ret = Unset
    /\ result = Unset
    /\ call = NoCall
    /\ hist = NoHist
    /\ reencoded = Unset
    /\ again = <<>>

Next ==
    \/ EncodeCall
    \/ Construct
    \/ DispatchError
    \/ DecodeStr
    \/ DecodeInt
    \/ DecodeList
    \/ DecodeDict
    \/ ListLoop
    \/ DictLoop
    \/ DictKey
    \/ Store
    \/ Finish
    \/ ReEncode

Spec == Init /\ [][Next]_vars

MaxLiveLen == 2

\* The buffers of the termination check: the short ones and the corpus.
InitLive ==
    /\ data \in SeqsUpTo(Alphabet, MaxLiveLen) \cup Corpus
    /\ Fresh

\* A sequential program takes its next step whenever it has one.
SpecLive == InitLive /\ [][NextDec]_vars /\ WF_vars(NextDec)

----------------------------------------------------------------------------
(* Properties.                                                             *)

Decoded == pc \in {"done", "reencoded"}

OnlySyntaxErrors ==
    (pc = "done" /\ data # <<>>) =>
        result.kind = "return" \/ result = Raised(SyntaxErr)

\* C3: decode terminates on every buffer.
Terminates == <>(pc = "done")

\* A proper prefix of the buffer is the encoding of a value.
HasEncodedPrefix(d) == \E k \in 1..(Len(d) - 1) : SubSeq(d, 1, k) \in Encodings

\* C4: decode returns a value only with the cursor at the end of the buffer,
\* and a buffer that is an encoding followed by more bytes raises
\* InvalidTorrentFileBencoding.
TrailingRejected ==
    pc = "done" =>
        /\ result.kind = "return" => curr_index = Len(data)
        /\ HasEncodedPrefix(data) => result = Raised(SyntaxErr)

\* i1ee has been rejected by the test after the top-level value
TrailingWitness ==
    /\ pc = "done"
    /\ data = <<"i", "1", "e", "e">>
    /\ curr_index = 3
    /\ result = Raised(SyntaxErr)

\* C5: once a string sub-parser has met a declared length that exceeds the
\* bytes left, decode does not return a value.
TruncatedFails == (pc = "done" /\ hist.truncated) => result.kind = "raise"

\* a mapping value cut short has made decode fail
TruncatedWitness ==
    /\ pc = "done"
    /\ hist.truncated
    /\ data = <<"d", "1", ":", "a", "3", ":", "a", "b">>
    /\ result.kind = "raise"

\* The spans the integer grammar allows: 0, or an optional "-", a non-zero
\* digit, then digits.
Canonical(span) ==
    \/ span = <<"0">>
    \/ LET body == IF span # <<>> /\ span[1] = "-" THEN Tail(span) ELSE span
       IN  /\ body # <<>>
           /\ \A k \in 1..Len(body) : IsDigit(body[k])
           /\ body[1] # "0"

\* C6: the integer sub-parser accepts the span before the next "e" exactly
\* when it is canonical, and then leaves the cursor just past the "e".
IntGrammar ==
    (call.fn = "int" /\ call.int_end # -1) =>
        /\ (call.exc = "none") <=> Canonical(call.span)
        /\ call.exc = "none" => call.after = call.int_end + 1

ReEncodeSame ==
    (encoded.kind = "return" /\ Decoded) =>
        /\ result.kind = "return"
        /\ pc = "reencoded" => reencoded = encoded

\* The format: decimal text between i and e for an integer (1 or 0 for a
\* boolean), length, colon and bytes for a byte string, the elements between
\* l and e, the key and value of each pair in insertion order between d and e.
RECURSIVE Bencoding(_), BencodingAll(_)
Bencoding(x) ==
    CASE x.t = "int"   -> <<"i">> \o IntToBytes(x.v) \o <<"e">>
      [] x.t = "bool"  -> IF x.v THEN <<"i", "1", "e">> ELSE <<"i", "0", "e">>
      [] x.t = "bytes" -> IntToBytes(Len(x.v)) \o <<":">> \o x.v
      [] x.t \in {"list", "tuple"} -> <<"l">> \o BencodingAll(x.v) \o <<"e">>
      [] x.t = "dict"  ->
           <<"d">>
           \o BencodingAll([j \in 1..(2 * Len(x.v)) |->
                               x.v[(j + 1) \div 2][2 - (j % 2)]])
           \o <<"e">>

BencodingAll(xs) ==
    IF xs = <<>> THEN <<>> ELSE Bencoding(Head(xs)) \o BencodingAll(Tail(xs))

RECURSIVE HasType(_, _)
HasType(x, tags) ==
    \/ x.t \in tags
    \/ /\ x.t \in {"list", "tuple"}
       /\ \E j \in 1..Len(x.v) : HasType(x.v[j], tags)
    \/ /\ x.t = "dict"
       /\ \E j \in 1..Len(x.v) : HasType(x.v[j][1], tags) \/ HasType(x.v[j][2], tags)

----------------------------------------------------------------------------
(***************************************************************************)
(* The wire messages of aachick/bittorrent:                                *)
(*   src/bittorrent/messages/message.py          (the message classes)     *)
(*   src/bittorrent/messages/message_decoder.py  (decode_message)          *)
(*                                                                         *)
(* Here a byte is a number in 0..255, and a bytes object is the sequence   *)
(* of its runs: <<[b |-> 0, n |-> 3], [b |-> 7, n |-> 1]>> is              *)
(* b'\x00\x00\x00\x07'.  Runs are never empty and neighbouring runs hold   *)
(* different bytes, so equal bytes objects are equal sequences, and a      *)
(* block of several hundred megabytes is one run.                          *)
(***************************************************************************)

\* bytes([b]) * n
Rep(b, n) == IF n <= 0 THEN <<>> ELSE <<[b |-> b, n |-> n]>>

\* s + t
Cat(s, t) ==
    IF s = <<>> THEN t
    ELSE IF t = <<>> THEN s
    ELSE IF s[Len(s)].b = t[1].b
         THEN SubSeq(s, 1, Len(s) - 1)
                  \o <<[b |-> t[1].b, n |-> s[Len(s)].n + t[1].n]>>
                  \o Tail(t)
         ELSE s \o t

\* bytes([q[1], q[2], ...])
RECURSIVE MkBytes(_)
MkBytes(q) == IF q = <<>> THEN <<>> ELSE Cat(Rep(Head(q), 1), MkBytes(Tail(q)))

\* len(s)
RECURSIVE WLen(_)
WLen(s) == IF s = <<>> THEN 0 ELSE s[1].n + WLen(Tail(s))

\* s[:k], for 0 <= k
RECURSIVE Take(_, _)
Take(s, k) ==
    IF k <= 0 \/ s = <<>> THEN <<>>
    ELSE IF s[1].n <= k THEN <<s[1]>> \o Take(Tail(s), k - s[1].n)
    ELSE <<[b |-> s[1].b, n |-> k]>>

\* s[k:], for 0 <= k
RECURSIVE Drop(_, _)
Drop(s, k) ==
    IF k <= 0 \/ s = <<>> THEN s
    ELSE IF s[1].n <= k THEN Drop(Tail(s), k - s[1].n)
    ELSE <<[b |-> s[1].b, n |-> s[1].n - k]>> \o Tail(s)

\* s[a:b], for 0 <= a <= b
WSlice(s, a, b) == Take(Drop(s, a), b - a)

\* s[i], for 0 <= i < len(s)
WAt(s, i) == Drop(s, i)[1].b

\* list(s): the bytes one by one
RECURSIVE Expand(_)
Expand(s) ==
    IF s = <<>> THEN <<>>
    ELSE [i \in 1..s[1].n |-> s[1].b] \o Expand(Tail(s))

----------------------------------------------------------------------------
(* The struct module.  A format is the sequence of its fields after the    *)
(* '>' (big-endian, no padding): [c |-> "I"] (4 bytes), [c |-> "H"] (2),   *)
(* [c |-> "B"] (1) and [c |-> "s", n |-> k] for 'ks'.                      *)

FmtI == [c |-> "I", n |-> 4]
FmtH == [c |-> "H", n |-> 2]
FmtB == [c |-> "B", n |-> 1]
FmtS(k) == [c |-> "s", n |-> k]

\* '{}s'.format(k) with a negative k is not a format: struct.error
BadFormat(fmt) == \E i \in 1..Len(fmt) : fmt[i].n < 0

\* struct.calcsize
RECURSIVE CalcSize(_)
CalcSize(fmt) == IF fmt = <<>> THEN 0 ELSE fmt[1].n + CalcSize(Tail(fmt))

\* the value fits the field: 0 <= v <= 2^32 - 1 for 'I', 2^16 - 1 for 'H',
\* 255 for 'B'
FieldOk(f, v) ==
    CASE f.c = "I" -> v >= 0 /\ v \div 65536 <= 65535
      [] f.c = "H" -> v >= 0 /\ v <= 65535
      [] f.c = "B" -> v >= 0 /\ v <= 255
      [] f.c = "s" -> TRUE

\* the w bytes of v, most significant first
BigEndian(v, w) == [i \in 1..w |-> (v \div (256 ^ (w - i))) % 256]

\* one field of struct.pack: an integer big-endian, a bytes object cut or
\* zero-padded to the field's size
PackField(f, v) ==
    IF f.c = "s"
    THEN Cat(Take(v, f.n), Rep(0, f.n - WLen(v)))
    ELSE MkBytes(BigEndian(v, f.n))

RECURSIVE PackFields(_, _)
PackFields(fmt, vals) ==
    IF fmt = <<>> THEN <<>>
    ELSE Cat(PackField(fmt[1], vals[1]), PackFields(Tail(fmt), Tail(vals)))

\* struct.pack('>...', *vals)
StructPack(fmt, vals) ==
    IF BadFormat(fmt) \/ \E i \in 1..Len(fmt) : ~FieldOk(fmt[i], vals[i])
    THEN Raised("struct.error")
    ELSE Returned(PackFields(fmt, vals))

\* int.from_bytes(q, 'big')
RECURSIVE FromBigEndian(_)
FromBigEndian(q) ==
    IF q = <<>> THEN 0 ELSE FromBigEndian(SubSeq(q, 1, Len(q) - 1)) * 256 + q[Len(q)]

UnpackField(f, s) ==
    IF f.c = "s" THEN Take(s, f.n) ELSE FromBigEndian(Expand(Take(s, f.n)))

RECURSIVE UnpackFields(_, _)
UnpackFields(fmt, s) ==
    IF fmt = <<>> THEN <<>>
    ELSE <<UnpackField(fmt[1], s)>> \o UnpackFields(Tail(fmt), Drop(s, fmt[1].n))

\* struct.unpack('>...', s): the buffer must have exactly the format's size
StructUnpack(fmt, s) ==
    IF BadFormat(fmt) \/ WLen(s) # CalcSize(fmt)
    THEN Raised("struct.error")
    ELSE Returned(UnpackFields(fmt, s))

----------------------------------------------------------------------------
(* message.py.  A message object is its class and its __dict__, the        *)
(* attributes as <<name, value>> pairs in the order __init__ set them.     *)

\* b'BitTorrent protocol'
BITTORRENT_PSTR_V1 ==
    MkBytes(<<66, 105, 116, 84, 111, 114, 114, 101, 110, 116, 32,
              112, 114, 111, 116, 111, 99, 111, 108>>)

\* Handshake.RESERVED
RESERVED == Rep(0, 8)

IDClasses == {"Choke", "Unchoke", "Interested", "NotInterested"}

Classes ==
    {"Handshake", "KeepAlive", "Have", "Bitfield", "Request", "Piece",
     "Cancel", "Port"} \cup IDClasses

\* the class attribute LENGTH (BASE_LENGTH of Bitfield and Piece)
LENGTH(c) ==
    CASE c = "Handshake" -> WLen(BITTORRENT_PSTR_V1) + 49
      [] c = "KeepAlive" -> 0
      [] c \in IDClasses -> 1
      [] c = "Have" -> 5
      [] c = "Bitfield" -> 1
      [] c = "Request" -> 13
      [] c = "Piece" -> 9
      [] c = "Cancel" -> 13
      [] c = "Port" -> 3

\* the class attribute ID
ID(c) ==
    CASE c = "Choke" -> 0
      [] c = "Unchoke" -> 1
      [] c = "Interested" -> 2
      [] c = "NotInterested" -> 3
      [] c = "Have" -> 4
      [] c = "Bitfield" -> 5
      [] c = "Request" -> 6
      [] c = "Piece" -> 7
      [] c = "Cancel" -> 8
      [] c = "Port" -> 9

\* the class attribute STRUCT; k fills the '{}' of Bitfield and Piece
STRUCT(c, k) ==
    CASE c = "Handshake" -> <<FmtB, FmtS(19), FmtS(8), FmtS(20), FmtS(20)>>
      [] c = "Have" -> <<FmtI, FmtB, FmtI>>
      [] c = "Bitfield" -> <<FmtI, FmtB, FmtS(k)>>
      [] c \in {"Request", "Cancel"} -> <<FmtI, FmtB, FmtI, FmtI, FmtI>>
      [] c = "Piece" -> <<FmtI, FmtB, FmtI, FmtI, FmtS(k)>>
      [] c = "Port" -> <<FmtI, FmtB, FmtH>>

Obj(c, d) == [cls |-> c, dict |-> d]

\* self.<name>
Attr(m, name) ==
    LET i == CHOOSE j \in 1..Len(m.dict) : m.dict[j][1] = name
    IN  m.dict[i][2]

\* BaseMessage.__init__
BaseInit(msg_len) == <<<<"_msg_len", msg_len>>>>

\* IDMessage.__init__
IDInit(msg_len, msg_id) == BaseInit(msg_len) \o <<<<"_msg_id", msg_id>>>>

\* isinstance(x, int): the integer arguments of the model are all ints
IsInt(x) == x \in Int

WrongLengthOfHash(info_hash, peer_id) == WLen(info_hash) # 20

\* Handshake.__init__: len(info_hash) != 20, len(peer_id) != 20
WrongLength(info_hash, peer_id) ==
    WLen(info_hash) # 20 \/ WLen(peer_id) # 20

\* cls(*a): the constructors
New(c, a) ==
    CASE c = "Handshake" ->
           IF WrongLength(a[1], a[2])
           THEN Raised("ValueError")
           ELSE Returned(Obj(c, BaseInit(LENGTH(c)) \o
                    <<<<"_pstr_len", WLen(BITTORRENT_PSTR_V1)>>,
                      <<"_pstr", BITTORRENT_PSTR_V1>>,
                      <<"_reserved", RESERVED>>,
                      <<"_info_hash", a[1]>>,
                      <<"_peer_id", a[2]>>>>))
      [] c = "KeepAlive" -> Returned(Obj(c, BaseInit(LENGTH(c))))
      [] c \in IDClasses -> Returned(Obj(c, IDInit(LENGTH(c), ID(c))))
      [] c = "Have" ->
           Returned(Obj(c, IDInit(LENGTH(c), ID(c)) \o
                    <<<<"_piece_index", a[1]>>>>))
      [] c = "Bitfield" ->
           Returned(Obj(c, IDInit(LENGTH(c) + WLen(a[1]), ID(c)) \o
                    <<<<"_bitfield", a[1]>>>>))
      [] c \in {"Request", "Cancel"} ->
           Returned(Obj(c, IDInit(LENGTH(c), ID(c)) \o
                    <<<<"_index", a[1]>>, <<"_begin", a[2]>>,
                      <<"_length", a[3]>>>>))
      [] c = "Piece" ->
           Returned(Obj(c, IDInit(LENGTH(c) + WLen(a[3]), ID(c)) \o
                    <<<<"_index", a[1]>>, <<"_begin", a[2]>>,
                      <<"_block", a[3]>>>>))
      [] c = "Port" ->
           IF ~IsInt(a[1]) /\ a[1] < 0
           THEN Raised("ValueError")
           ELSE Returned(Obj(c, IDInit(LENGTH(c), ID(c)) \o
                    <<<<"_port", a[1]>>>>))

\* BaseMessage.__eq__: the same class, and the values of the two __dict__
\* equal pair by pair as far as zip() pairs them
Eq(self, other) ==
    /\ other.cls = self.cls
    /\ \A i \in 1..Len(self.dict) :
           i <= Len(other.dict) => other.dict[i][2] = self.dict[i][2]

\* self.to_bytes()
to_bytes(m) ==
    CASE m.cls = "Handshake" ->
           StructPack(STRUCT(m.cls, 0),
                      <<Attr(m, "_pstr_len"), Attr(m, "_pstr"),
                        Attr(m, "_reserved"), Attr(m, "_info_hash"),
                        Attr(m, "_peer_id")>>)
      [] m.cls = "KeepAlive" -> StructPack(<<FmtI>>, <<Attr(m, "_msg_len")>>)
      [] m.cls \in IDClasses ->
           StructPack(<<FmtI, FmtB>>,
                      <<Attr(m, "_msg_len"), Attr(m, "_msg_id")>>)
      [] m.cls = "Have" ->
           StructPack(STRUCT(m.cls, 0),
                      <<Attr(m, "_msg_len"), Attr(m, "_msg_id"),
                        Attr(m, "_piece_index")>>)
      [] m.cls = "Bitfield" ->
           StructPack(STRUCT(m.cls, WLen(Attr(m, "_bitfield"))),
                      <<Attr(m, "_msg_len"), Attr(m, "_msg_id"),
                        Attr(m, "_bitfield")>>)
      [] m.cls \in {"Request", "Cancel"} ->
           StructPack(STRUCT(m.cls, 0),
                      <<Attr(m, "_msg_len"), Attr(m, "_msg_id"),
                        Attr(m, "_index"), Attr(m, "_begin"),
                        Attr(m, "_length")>>)
      [] m.cls = "Piece" ->
           StructPack(STRUCT(m.cls, WLen(Attr(m, "_block"))),
                      <<Attr(m, "_msg_len"), Attr(m, "_msg_id"),
                        Attr(m, "_index"), Attr(m, "_begin"),
                        Attr(m, "_block")>>)
      [] m.cls = "Port" ->
           StructPack(STRUCT(m.cls, 0),
                      <<Attr(m, "_msg_len"), Attr(m, "_msg_id"),
                        Attr(m, "_port")>>)

\* the total length each from_bytes of a fixed-size class asks for
ExpectedLen(c) ==
    CASE c = "Handshake" -> LENGTH("Handshake")
      [] c = "KeepAlive" -> 4
      [] c \in IDClasses -> 5
      [] c = "Have" -> 9
      [] c \in {"Request", "Cancel"} -> 17
      [] c = "Port" -> 7

FixedClasses == Classes \ {"Bitfield", "Piece"}

LengthCheckAtLeast(c, p) == WLen(p) < ExpectedLen(c)

\* if len(payload) != <size>: raise ValueError(...)
LengthCheck(c, p) == WLen(p) # ExpectedLen(c)

\* what a from_bytes did: its outcome, and whether it reached struct.unpack
Parsed(o, u) == [out |-> o, unpacked |-> u]

\* struct.unpack(STRUCT, payload), then cls(...) on the fields named by at
UnpackAndBuild(c, fmt, p, at) ==
    LET u == StructUnpack(fmt, p)
    IN  IF u.kind = "raise"
        THEN Parsed(u, TRUE)
        ELSE Parsed(New(c, [i \in 1..Len(at) |-> u.val[at[i]]]), TRUE)

\* cls.from_bytes(payload)
from_bytes(c, p) ==
    IF c \in FixedClasses /\ LengthCheck(c, p)
    THEN Parsed(Raised("ValueError"), FALSE)
    ELSE CASE c = "Handshake" -> UnpackAndBuild(c, STRUCT(c, 0), p, <<4, 5>>)
           [] c = "KeepAlive" -> Parsed(New(c, <<>>), FALSE)
           [] c \in IDClasses -> Parsed(New(c, <<>>), FALSE)
           [] c = "Have" -> UnpackAndBuild(c, STRUCT(c, 0), p, <<3>>)
           [] c = "Bitfield" ->
                UnpackAndBuild(c, STRUCT(c, WLen(p) - LENGTH(c) - 4), p, <<3>>)
           [] c \in {"Request", "Cancel"} ->
                UnpackAndBuild(c, STRUCT(c, 0), p, <<3, 4, 5>>)
           [] c = "Piece" ->
                UnpackAndBuild(c, STRUCT(c, WLen(p) - LENGTH(c) - 4), p,
                               <<3, 4, 5>>)
           [] c = "Port" -> UnpackAndBuild(c, STRUCT(c, 0), p, <<3>>)

\* bin(b): '0b' and the binary digits of b
RECURSIVE BinDigits(_)
BinDigits(b) ==
    IF b < 2 THEN <<IF b = 1 THEN "1" ELSE "0">>
    ELSE BinDigits(b \div 2) \o <<IF b % 2 = 1 THEN "1" ELSE "0">>

Bin(b) == <<"0", "b">> \o BinDigits(b)

\* s.lstrip(chars): drops every leading character that is in chars
RECURSIVE LStrip(_, _)
LStrip(s, chars) ==
    IF s # <<>> /\ Head(s) \in chars THEN LStrip(Tail(s), chars) ELSE s

\* the entries the inner loop of pieces_status appends for one byte
ByteStatus(b) ==
    LET bits == LStrip(Bin(b), {"0", "b"})
    IN  [i \in 1..Len(bits) |-> bits[i] = "1"]

\* q + q + ... + q, n times
Repeat(q, n) == [i \in 1..(Len(q) * n) |-> q[((i - 1) % Len(q)) + 1]]

\* Bitfield.pieces_status, a run of equal bytes at a time
RECURSIVE StatusOf(_)
StatusOf(s) ==
    IF s = <<>> THEN <<>>
    ELSE Repeat(ByteStatus(s[1].b), s[1].n) \o StatusOf(Tail(s))

pieces_status(m) == StatusOf(Attr(m, "_bitfield"))

----------------------------------------------------------------------------
(* message_decoder.py                                                      *)

\* MessageDecoder._MESSAGE_CLASS[msg_id]
MESSAGE_CLASS(msg_id) ==
    CASE msg_id = 0 -> "Choke"
      [] msg_id = 1 -> "Unchoke"
      [] msg_id = 2 -> "Interested"
      [] msg_id = 3 -> "NotInterested"
      [] msg_id = 4 -> "Have"
      [] msg_id = 5 -> "Bitfield"
      [] msg_id = 6 -> "Request"
      [] msg_id = 7 -> "Piece"
      [] msg_id = 8 -> "Cancel"
      [] msg_id = 9 -> "Port"
      [] OTHER -> "KeyError"

StructErr == "InvalidMessageStructure"

IsKeepAliveIfZero(p) == p = Rep(0, 4)

\* len(payload) == 4
IsKeepAlive(p) == WLen(p) = 4

IsHandshakeIfSized(p) == WAt(p, 0) = 19 /\ WLen(p) = 68

\* payload[0] == 19
IsHandshake(p) == WAt(p, 0) = 19

IdAtLast(p) == WSlice(p, WLen(p) - 1, WLen(p))

\* payload[4:5]
IdAt(p) == WSlice(p, 4, 5)

\* MessageDecoder.decode_message(payload)
decode_message(p) ==
    IF WLen(p) < 4 THEN Raised(StructErr)
    ELSE IF IsKeepAlive(p) THEN New("KeepAlive", <<>>)
    ELSE IF IsHandshake(p) THEN from_bytes("Handshake", p).out
    ELSE LET u == StructUnpack(<<FmtB>>, IdAt(p))
         IN  IF u.kind = "raise" THEN Raised(StructErr)
             ELSE LET c == MESSAGE_CLASS(u.val[1])
                  IN  IF c = "KeyError" THEN Raised(StructErr)
                      ELSE from_bytes(c, p).out

----------------------------------------------------------------------------
(* The operations on a message, one action each.                           *)

\* a value handed in by the caller
Given(x) == [kind |-> "given", val |-> x]

\* m = cls(*args)
NewMessage ==
    /\ args # Unset
    /\ msg = Unset
    /\ msg' = New(cls, args.val)
    /\ UNCHANGED <<codec, rebuilt, reframed, cls, args, sent, payload, parsed, decoded, pieces>>

\* payload = m.to_bytes()
ToBytes ==
    /\ msg # Unset
    /\ msg.kind = "return"
    /\ sent = Unset
    /\ \E r \in {to_bytes(msg.val)} :
           /\ sent' = r
           /\ IF r.kind = "return"
              THEN payload' = Given(r.val)
              ELSE UNCHANGED payload
    /\ UNCHANGED <<codec, rebuilt, reframed, cls, args, msg, parsed, decoded, pieces>>

\* cls.from_bytes(payload)
FromBytes ==
    /\ payload # Unset
    /\ parsed = Unset
    /\ parsed' = from_bytes(cls, payload.val)
    /\ UNCHANGED <<codec, rebuilt, reframed, cls, args, msg, sent, payload, decoded, pieces>>

\* decode_message(payload)
DecodeMessage ==
    /\ payload # Unset
    /\ decoded = Unset
    /\ decoded' = decode_message(payload.val)
    /\ UNCHANGED <<codec, rebuilt, reframed, cls, args, msg, sent, payload, parsed, pieces>>

\* m.pieces_status()
PiecesStatus ==
    /\ msg # Unset
    /\ msg.kind = "return"
    /\ msg.val.cls = "Bitfield"
    /\ pieces = Unset
    /\ pieces' = Returned(pieces_status(msg.val))
    /\ UNCHANGED <<codec, rebuilt, reframed, cls, args, msg, sent, payload, parsed, decoded>>

\* cls.from_bytes(payload).to_bytes(): the parsed message goes out again
Rebuild ==
    /\ parsed # Unset
    /\ parsed.out.kind = "return"
    /\ rebuilt = Unset
    /\ rebuilt' = to_bytes(parsed.out.val)
    /\ UNCHANGED <<codec, cls, args, msg, sent, payload, parsed, decoded,
                   pieces, reframed>>

\* decode_message(payload).to_bytes(): the decoded message goes out again
Reframe ==
    /\ decoded # Unset
    /\ decoded.kind = "return"
    /\ reframed = Unset
    /\ reframed' = to_bytes(decoded.val)
    /\ UNCHANGED <<codec, cls, args, msg, sent, payload, parsed, decoded,
                   pieces, rebuilt>>

\* The bencoding half at rest.
NoCodec ==
    /\ input = Unset
    /\ bencoded = <<>>
    /\ encoded = Unset
    /\ data = <<>>
    /\ curr_index = 0
    /\ stack = <<>>
    /\ pc = "idle"
    /\ ret = Unset
    /\ result = Unset
    /\ call = NoCall
    /\ hist = NoHist
    /\ reencoded = Unset
    /\ again = <<>>

----------------------------------------------------------------------------
(* The messages a peer builds and sends.                                   *)

MaxBits == 2

\* integer arguments: in and out of the range of 'I' and of 'H'
FieldValues == {-1, 0, 1, 65535, 65536}

\* bytes of a bitfield: 0x00, 0x01, 0x13, 0x30, 0xa0, 0xff
ByteValues == {0, 1, 19, 48, 160, 255}

RECURSIVE BytesOfLen(_)
BytesOfLen(k) ==
    IF k = 0 THEN {<<>>}
    ELSE {Cat(Rep(b, 1), s) : b \in ByteValues, s \in BytesOfLen(k - 1)}

ShortBytes == UNION {BytesOfLen(k) : k \in 0..MaxBits}

\* the first msg_len whose big-endian form starts with the byte 19
PrefixOf19 == 19 * (256 ^ 3)

\* payloads that bring msg_len to the values around PrefixOf19
LongBytes(base) == {Rep(0, PrefixOf19 - base - d) : d \in {0, 1}}

Hashes ==
    {Rep(0, 20), Rep(1, 20), Cat(Rep(19, 1), Rep(0, 19)),
     Rep(1, 19), Rep(1, 21), <<>>}

ArgsOf(c) ==
    CASE c = "Handshake" -> {<<h, q>> : h \in Hashes, q \in Hashes}
      [] c \in {"KeepAlive"} \cup IDClasses -> {<<>>}
      [] c \in {"Have", "Port"} -> {<<v>> : v \in FieldValues}
      [] c = "Bitfield" ->
           {<<s>> : s \in ShortBytes \cup LongBytes(LENGTH("Bitfield"))}
      [] c \in {"Request", "Cancel"} ->
           {<<i, j, k>> : i \in FieldValues, j \in FieldValues,
                          k \in FieldValues}
      [] c = "Piece" ->
           {<<i, j, s>> : i \in FieldValues, j \in FieldValues,
                          s \in ShortBytes \cup LongBytes(LENGTH("Piece"))}

InitMsg ==
    /\ NoCodec
    /\ cls \in Classes
    /\ args \in {Given(a) : a \in ArgsOf(cls)}
    /\ msg = Unset
    /\ sent = Unset
    /\ payload = Unset
    /\ parsed = Unset
    /\ decoded = Unset
    /\ pieces = Unset
    /\ rebuilt = Unset
    /\ reframed = Unset

NextMsg ==
    \/ NewMessage
    \/ ToBytes
    \/ FromBytes
    \/ DecodeMessage
    \/ PiecesStatus

SpecMsg == InitMsg /\ [][NextMsg]_vars

----------------------------------------------------------------------------
(* The payloads a peer receives: any bytes.                                *)

MaxPayload == 18

\* total lengths: everything up to MaxPayload, and those around 68
PayloadLens == (0..MaxPayload) \cup {67, 68, 69}

\* the 5th byte: every known ID, and some that are none
IdBytes == (0..10) \cup {19, 255}

\* first, 0, 0, len, id, fill, fill, ... cut to n bytes
PayloadOf(first, len, id, fill, n) ==
    Take(Cat(MkBytes(<<first, 0, 0, len, id>>), Rep(fill, n)), n)

Payloads ==
    {PayloadOf(first, len, id, fill, n) :
        first \in {0, 19}, len \in {0, 1}, id \in IdBytes, fill \in {0, 7},
        n \in PayloadLens}

InitWire ==
    /\ NoCodec
    /\ cls \in Classes
    /\ args = Unset
    /\ msg = Unset
    /\ sent = Unset
    /\ payload \in {Given(p) : p \in Payloads}
    /\ parsed = Unset
    /\ decoded = Unset
    /\ pieces = Unset
    /\ rebuilt = Unset
    /\ reframed = Unset

NextWire ==
    \/ FromBytes
    \/ DecodeMessage
    \/ Rebuild
    \/ Reframe

SpecWire == InitWire /\ [][NextWire]_vars

----------------------------------------------------------------------------
(* Properties of the messages.                                             *)

\* the message the constructor returned
Built == msg # Unset /\ msg.kind = "return"

\* C11: for every message m the constructor returns, m.to_bytes() returns
\* bytes, and type(m).from_bytes of them returns a message equal to m.
FromBytesRoundTrip ==
    /\ (sent # Unset) => sent.kind = "return"
    /\ (Built /\ parsed # Unset) =>
           /\ parsed.out.kind = "return"
           /\ Eq(msg.val, parsed.out.val)

\* C12: for every message m, decode_message(m.to_bytes()) returns a message
\* equal to m, whatever the length prefix of the bytes is.
DecodeRoundTrip ==
    (Built /\ decoded # Unset) =>
        /\ decoded.kind = "return"
        /\ Eq(msg.val, decoded.val)

\* C13: whatever bytes decode_message is given, it returns a message or
\* raises InvalidMessageStructure, never another error.
OnlyStructureErrors ==
    (decoded # Unset /\ decoded.kind = "raise") => decoded.exc = StructErr

\* bit p of byte b, counted from the most significant bit
BitOf(b, p) == (b \div (2 ^ (7 - p))) % 2 = 1

\* C14: pieces_status() returns 8 * len(bitfield) booleans, and the one at
\* index 8*i + p tells whether bit p of byte i (from the most significant
\* bit) is set.
PiecesStatusBits ==
    (Built /\ pieces # Unset) =>
        /\ pieces.kind = "return"
        /\ Len(pieces.val) % 8 = 0
        /\ Len(pieces.val) \div 8 = WLen(Attr(msg.val, "_bitfield"))
        /\ LET bytes == Expand(Attr(msg.val, "_bitfield"))
           IN  \A i \in 0..(Len(bytes) - 1) : \A p \in 0..7 :
                   pieces.val[8 * i + p + 1] = BitOf(bytes[i + 1], p)

\* C15: to_bytes returns bytes for every message its constructor returned.
ToBytesTotal ==
    (Built /\ sent # Unset) => sent.kind = "return"

\* C16: for every message m other than a Handshake, m.to_bytes() is the
\* 4 bytes of m.msg_len, big-endian, followed by exactly m.msg_len bytes.
LengthPrefix ==
    (Built /\ msg.val.cls # "Handshake" /\ sent # Unset) =>
        /\ sent.kind = "return"
        /\ Take(sent.val, 4) = MkBytes(BigEndian(Attr(msg.val, "_msg_len"), 4))
        /\ WLen(sent.val) = 4 + Attr(msg.val, "_msg_len")

\* o is the outcome of a call that returned a Handshake
GaveHandshake(o) ==
    /\ o # Unset
    /\ o.kind = "return"
    /\ o.val.cls = "Handshake"

\* the 68 bytes of a handshake with these two fields
HandshakeBytes(info_hash, peer_id) ==
    Cat(MkBytes(<<19, 66, 105, 116, 84, 111, 114, 114, 101, 110, 116, 32,
                  112, 114, 111, 116, 111, 99, 111, 108>>),
        Cat(Rep(0, 8), Cat(info_hash, peer_id)))

\* h has two 20-byte fields and serializes to the 68 bytes
WellFormedHandshake(h) ==
    /\ WLen(Attr(h, "_info_hash")) = 20
    /\ WLen(Attr(h, "_peer_id")) = 20
    /\ to_bytes(h) =
           Returned(HandshakeBytes(Attr(h, "_info_hash"), Attr(h, "_peer_id")))
    /\ WLen(to_bytes(h).val) = 68

\* C17: Handshake(info_hash, peer_id) fails with an error unless both are
\* 20 bytes long; every Handshake object, constructed or parsed, has two
\* 20-byte fields, and its to_bytes() is the 68 bytes 19, 'BitTorrent
\* protocol', 8 zero bytes, info_hash, peer_id.
HandshakeShape ==
    /\ (cls = "Handshake" /\ args # Unset /\ msg # Unset) =>
           IF WLen(args.val[1]) = 20 /\ WLen(args.val[2]) = 20
           THEN msg.kind = "return"
           ELSE msg = Raised("ValueError")
    /\ GaveHandshake(msg) => WellFormedHandshake(msg.val)
    /\ (GaveHandshake(msg) /\ sent # Unset) =>
           sent = Returned(HandshakeBytes(args.val[1], args.val[2]))
    /\ (parsed # Unset /\ GaveHandshake(parsed.out)) =>
           WellFormedHandshake(parsed.out.val)
    /\ GaveHandshake(decoded) => WellFormedHandshake(decoded.val)

\* a handshake whose info hash is all zero bytes was built and serialized
HandshakeShapeWitness ==
    /\ GaveHandshake(msg)
    /\ args.val[1] = Rep(0, 20)
    /\ args.val[2] = Rep(1, 20)
    /\ sent # Unset
    /\ sent.kind = "return"
    /\ WLen(sent.val) = 68

\* the total size of a message of a fixed-size variant
SizeOf(c) ==
    CASE c = "KeepAlive" -> 4
      [] c \in {"Choke", "Unchoke", "Interested", "NotInterested"} -> 5
      [] c = "Have" -> 9
      [] c \in {"Request", "Cancel"} -> 17
      [] c = "Port" -> 7
      [] c = "Handshake" -> 68

\* C18: from_bytes of a fixed-size variant returns a message only for a
\* payload of exactly the variant's size; for any other length it raises
\* before struct.unpack is reached.
ExactLength ==
    (parsed # Unset /\ cls \notin {"Bitfield", "Piece"}) =>
        IF WLen(payload.val) = SizeOf(cls)
        THEN parsed.out.kind = "return" => parsed.out.val.cls = cls
        ELSE /\ parsed.out.kind = "raise"
             /\ ~parsed.unpacked

\* Have.from_bytes refused a payload one byte too long
ExactLengthWitness ==
    /\ parsed # Unset
    /\ cls = "Have"
    /\ WLen(payload.val) = 10
    /\ parsed.out = Raised("ValueError")

\* C19: decode_message raises InvalidMessageStructure for fewer than 4
\* bytes and returns a KeepAlive for any 4 bytes.
ShortPayloads ==
    (decoded # Unset /\ WLen(payload.val) <= 4) =>
        IF WLen(payload.val) < 4
        THEN decoded = Raised(StructErr)
        ELSE /\ decoded.kind = "return"
             /\ decoded.val.cls = "KeepAlive"
             /\ Attr(decoded.val, "_msg_len") = 0

\* the 4 bytes 19, 0, 0, 1 were classified as a KeepAlive
ShortPayloadsWitness ==
    /\ decoded # Unset
    /\ payload.val = MkBytes(<<19, 0, 0, 1>>)
    /\ decoded.kind = "return"
    /\ decoded.val.cls = "KeepAlive"

\* the variant each ID names
VariantOf(id) ==
    <<"Choke", "Unchoke", "Interested", "NotInterested", "Have", "Bitfield",
      "Request", "Piece", "Cancel", "Port">>[id + 1]

----------------------------------------------------------------------------
(* More properties of the decoder.                                          *)

\* C21: the cursor only moves forward: a string (also as a mapping key) or
\* an integer sub-parser that returns leaves the cursor past the position
\* where it started, and the cursor is past the start of every list and
\* mapping that is open.
CursorForward ==
    /\ (call.fn \in {"str", "int"} /\ call.exc = "none") =>
           call.after > call.start
    /\ \A i \in 1..Len(stack) : curr_index > stack[i].start

\* C22: the string sub-parser returns a string, as a value or as a mapping
\* key, only if the bytes before the ':' are ASCII digits, at least one.
DigitsOnlyPrefix ==
    (call.fn = "str" /\ call.exc = "none") =>
        /\ call.prefix # <<>>
        /\ \A i \in 1..Len(call.prefix) :
               call.prefix[i] \in {"0", "1", "2", "3", "4", "5", "6", "7", "8", "9"}

----------------------------------------------------------------------------
(* More properties of the messages.                                         *)

\* C23: for more than 4 bytes starting with 19, decode_message tries the
\* Handshake parse and nothing else: it returns a Handshake for exactly 68
\* bytes and fails for any other length, whatever the 5th byte is.
HandshakeOnly ==
    (decoded # Unset /\ WLen(payload.val) > 4 /\ WAt(payload.val, 0) = 19) =>
        IF WLen(payload.val) = 68
        THEN decoded.kind = "return" /\ decoded.val.cls = "Handshake"
        ELSE decoded = Raised("ValueError")

\* 17 bytes starting with 19 and carrying the ID 6 were not read as a Request
HandshakeOnlyWitness ==
    /\ decoded # Unset
    /\ WLen(payload.val) = 17
    /\ WAt(payload.val, 0) = 19
    /\ WAt(payload.val, 4) = 6
    /\ decoded.kind = "raise"

\* the 4-byte big-endian number at the start of p
PrefixValue(p) == FromBigEndian(Expand(Take(p, 4)))

\* C25: whenever decode_message returns an ID-tagged message for a payload
\* p of more than 4 bytes, the length prefix of p is len(p) - 4, and the
\* to_bytes() of the message is p.
LengthAgreement ==
    /\ (decoded # Unset /\ decoded.kind = "return" /\ WLen(payload.val) > 4
            /\ decoded.val.cls # "Handshake") =>
           PrefixValue(payload.val) = WLen(payload.val) - 4
    /\ (reframed # Unset /\ WLen(payload.val) > 4
            /\ decoded.val.cls # "Handshake") =>
           reframed = Returned(payload.val)

\* C26: whenever Handshake.from_bytes returns a message for a payload p, p
\* is 68 bytes that start with 19, 'BitTorrent protocol' and 8 zero bytes,
\* and the to_bytes() of the message is p.
HandshakeHeader ==
    /\ (cls = "Handshake" /\ parsed # Unset /\ parsed.out.kind = "return") =>
           /\ WLen(payload.val) = 68
           /\ Take(payload.val, 28) = Take(HandshakeBytes(<<>>, <<>>), 28)
    /\ (cls = "Handshake" /\ rebuilt # Unset) =>
           rebuilt = Returned(payload.val)

----------------------------------------------------------------------------
(* torrent.py: a decoded metainfo mapping is encoded again for its hash.   *)

\* bencoding.encode(...) of what decode returned for the file's bytes
EncodeDecoded ==
    /\ pc = "done"
    /\ input = Unset
    /\ result.kind = "return"
    /\ reencoded' = encode(result.val).out
    /\ pc' = "reencoded"
    /\ UNCHANGED <<wire, again, input, bencoded, encoded, data, curr_index,
                   stack, ret, result, call, hist>>

NextFile ==
    \/ Construct
    \/ DispatchError
    \/ DecodeStr
    \/ DecodeInt
    \/ DecodeList
    \/ DecodeDict
    \/ ListLoop
    \/ DictLoop
    \/ DictKey
    \/ Store
    \/ Finish
    \/ EncodeDecoded

SpecFile == InitDec /\ [][NextFile]_vars

\* C24: every buffer decode accepts is the encoding of what it decodes to:
\* encode(decode(b)) equals b byte for byte.
OnlyCanonicalAccepted ==
    (pc = "reencoded" /\ input = Unset) => reencoded = Returned(data)

----------------------------------------------------------------------------
(* One Encoder, several encode() calls.                                     *)

MaxCalls == 2

\* encoder.encode() once more on the Encoder of EncodeCall: _data and
\* _bencoded are what the earlier calls left
EncodeAgain ==
    /\ encoded # Unset
    /\ Len(again) < MaxCalls
    /\ \E r \in {EncoderEncode(bencoded, input)} :
           /\ bencoded' = r.buf
           /\ again' = Append(again, r.out)
    /\ UNCHANGED <<wire, input, encoded, data, curr_index, stack, pc, ret,
                   result, call, hist, reencoded>>

NextEnc ==
    \/ EncodeCall
    \/ EncodeAgain

SpecEnc == Init /\ [][NextEnc]_vars

\* C27: every later encode() call on the same Encoder gives what the first
\* call gave.
SameEveryCall ==
    \A i \in 1..Len(again) : again[i] = encoded

====
